---- MODULE Spec2Model ----
(***************************************************************************)
(* Model of the three-step identity-verification wizard of the FinGuard    *)
(* dashboard script (document upload -> OCR -> selfie -> face comparison   *)
(* -> combined result).                                                     *)
(*                                                                         *)
(* The state is the two module-level variables of the script (ocrResult,   *)
(* documentImageFile), the DOM state the handlers read and write (the      *)
(* visible step, the two file inputs, the combined-results container, the  *)
(* loading overlay), the requests that have been sent and not yet          *)
(* answered, and the notifications emitted by the most recent handler.     *)
(*                                                                         *)
(* JavaScript is single threaded: every handler runs to its next await,    *)
(* so each action below is one handler up to its await, or the part of a   *)
(* handler that runs when the awaited response arrives.  Nothing in the    *)
(* script stops a handler from being started while a request is            *)
(* outstanding (the loading overlay is only a visual layer, and a form can *)
(* be submitted from the keyboard), so user actions and response arrivals  *)
(* interleave freely.                                                      *)
(*                                                                         *)
(* The form of step k lies inside the element step-k, which goToStep hides *)
(* unless k is the visible step: the user can operate the document form    *)
(* only in step 1 and the selfie form only in step 2.  resetVerification   *)
(* is a global function and can be invoked in any step.                    *)
(*                                                                         *)
(* The two file inputs belong to the forms that resetVerification resets,  *)
(* so a form reset empties them.  A response is what fetch and             *)
(* response.json() deliver: a rejection, a body that is not JSON, or a     *)
(* body with a success member, under any HTTP status; its data member may  *)
(* be missing.                                                             *)
(*                                                                         *)
(* Three further parts of the repository follow the wizard, each with its  *)
(* own state and its own specification: the wizard and the tab navigation  *)
(* of frontend/script.js (SpecScript, SpecNav), the live dashboard lists   *)
(* of the dashboard script (SpecFeed) and the chat (SpecChat).  A timer    *)
(* callback is a handler of its own; timers of equal delay fire in the     *)
(* order they were set.                                                    *)
(***************************************************************************)
EXTENDS Naturals, Integers, Sequences, FiniteSets, Bags, TLC

\* ---------------------------------------------------------------- bounds
MaxPending == 2
MaxFailures == 2
MaxDelays == 2
MaxTimers == 3
MaxEvents == 3
MaxMessages == 3
MaxLoads == 1

\* ------------------------------------------------------------ JS values
Null == "null"
Undefined == "undefined"

ImageFiles == {"id_123.jpg"}
OtherFiles == {"notes.pdf"}
DocumentFiles == ImageFiles \cup OtherFiles
SelfieFiles == {"selfie.jpg"}

\* file.type.startsWith('image/')
IsImage(file) == file \in ImageFiles

\* data.data of an OCR response: absent (the body has no data member), or
\* a payload with extracted_details
OcrPayloads == {Undefined, "ocr_A"}
WellFormedOcr == {"ocr_A"}

\* data.data of a face-comparison response: absent, or a payload with
\* comparison, verification, age_analysis and feature_comparison
FacePayloads == {Undefined, "face_A"}
WellFormedFace == {"face_A"}

ErrorMessages == {"face not detected"}
HttpStatuses == {200, 500}

Present(v) == v \notin {Null, Undefined}

\* ----------------------------------------------------------- responses
\* what the awaited fetch and response.json() deliver
Rejected ==
    [net |-> "rejected", status |-> 0, json |-> FALSE,
     success |-> FALSE, data |-> Undefined, error |-> Undefined]

Unparsable(st) ==
    [net |-> "response", status |-> st, json |-> FALSE,
     success |-> FALSE, data |-> Undefined, error |-> Undefined]

Failure(st, e) ==
    [net |-> "response", status |-> st, json |-> TRUE,
     success |-> FALSE, data |-> Undefined, error |-> e]

Success(st, d) ==
    [net |-> "response", status |-> st, json |-> TRUE,
     success |-> TRUE, data |-> d, error |-> Undefined]

NoResponse ==
    [net |-> "none", status |-> 0, json |-> FALSE,
     success |-> FALSE, data |-> Undefined, error |-> Undefined]

Responses(payloads) ==
    {Rejected}
      \cup {Unparsable(st) : st \in HttpStatuses}
      \cup {Failure(st, e) : st \in HttpStatuses, e \in ErrorMessages}
      \cup {Success(st, d) : st \in HttpStatuses, d \in payloads}

\* the try block runs to its end: fetch resolved and the body parsed
Parsed(resp) == resp.net = "response" /\ resp.json

\* ------------------------------------------------------------ requests
\* the URL and the FormData of a fetch call; resetSince is history: a
\* resetVerification has run since the request was sent
NoRequest == [url |-> "none", document |-> Null, selfie |-> Null, resetSince |-> FALSE]

OcrRequest(file) ==
    [url |-> "/kyc/ocr", document |-> file, selfie |-> Null, resetSince |-> FALSE]

FaceRequest(doc, selfieImg) ==
    [url |-> "/kyc/face-compare", document |-> doc, selfie |-> selfieImg,
     resetSince |-> FALSE]

\* --------------------------------------------------------------- state
VARIABLES
    currentStep,        \* the step-N element that is displayed
    ocrResult,          \* let ocrResult
    documentImageFile,  \* let documentImageFile
    documentFile,       \* #document-file .files[0]
    selfieFile,         \* #selfie-file .files[0]
    combinedResults,    \* #combined-results innerHTML
    loading,            \* #loading-overlay is displayed
    loadingCalls,       \* showLoading calls of the most recent handler
    pending,            \* bag of the requests sent and not yet answered
    toasts,             \* showToast calls of the most recent handler
    last                \* the most recent handler and the state it started in

wizardVars ==
    <<currentStep, ocrResult, documentImageFile, documentFile, selfieFile,
      combinedResults, loading, loadingCalls, pending, toasts, last>>

\* the data of one verification attempt
Session ==
    [currentStep |-> currentStep,
     ocrResult |-> ocrResult,
     documentImageFile |-> documentImageFile,
     documentFile |-> documentFile,
     selfieFile |-> selfieFile,
     combinedResults |-> combinedResults]

NothingRendered == [ocr |-> Null, face |-> Null]

showToast(message, type) == [message |-> message, type |-> type]

showLoading(show) == show

goToStep(stepNumber) == stepNumber

\* history: the handler that ran last, the one before it, the state it
\* started in, the request it sent and the response it received, the
\* document of the request whose response last assigned ocrResult, and the
\* number of failed OCR responses since the last reset (counted up to
\* MaxFailures)
Record(op, req, resp) ==
    [op |-> op, repeated |-> (last.op = op), pre |-> Session,
     prePending |-> pending, request |-> req, response |-> resp,
     ocrSource |-> IF op = "ocrResponse" /\ Parsed(resp) /\ resp.success
                     THEN req.document
                     ELSE IF op = "resetVerification" THEN Null
                     ELSE last.ocrSource,
     failures |-> IF op = "ocrResponse" /\ ~(Parsed(resp) /\ resp.success)
                    THEN (IF last.failures < MaxFailures
                            THEN last.failures + 1 ELSE MaxFailures)
                    ELSE IF op = "resetVerification" THEN 0
                    ELSE last.failures]

Send(request) == pending (+) SetToBag({request})

Settle(request) == pending (-) SetToBag({request})

\* the outstanding requests after a reset: the same requests (nothing is
\* cancelled), each marked as sent before the reset
MarkReset(bag) ==
    LET before(r) == [r EXCEPT !.resetSince = FALSE]
        after(r) == [r EXCEPT !.resetSince = TRUE]
        count(r) == IF r \in DOMAIN bag THEN bag[r] ELSE 0
    IN  [m \in {after(r) : r \in DOMAIN bag} |-> count(m) + count(before(m))]

\* the wizard after the script has loaded
WizardInit ==
    /\ currentStep = 1
    /\ ocrResult = Null
    /\ documentImageFile = Null
    /\ documentFile = Null
    /\ selfieFile = Null
    /\ combinedResults = NothingRendered
    /\ loading = FALSE
    /\ loadingCalls = <<>>
    /\ pending = EmptyBag
    /\ toasts = <<>>
    /\ last = [op |-> "load", repeated |-> FALSE,
               pre |-> [currentStep |-> 1, ocrResult |-> Null,
                        documentImageFile |-> Null, documentFile |-> Null,
                        selfieFile |-> Null, combinedResults |-> NothingRendered],
               prePending |-> EmptyBag,
               request |-> NoRequest, response |-> NoResponse,
               ocrSource |-> Null, failures |-> 0]


\* ------------------------------------------------- step 1: the document
\* fileInput 'change': the browser has put the chosen file into the input
SelectFile(file) ==
    /\ currentStep = 1
    /\ documentFile' = file
    /\ documentImageFile' = file
    /\ toasts' = <<>>
    /\ last' = Record("selectFile", NoRequest, NoResponse)
    /\ UNCHANGED <<currentStep, ocrResult, selfieFile, combinedResults, loading, pending>>
    /\ loadingCalls' = <<>>

\* uploadArea 'drop'
DropFile(file) ==
    /\ currentStep = 1
    /\ IF IsImage(file)
         THEN /\ documentFile' = file
              /\ documentImageFile' = file
              /\ toasts' = <<>>
         ELSE /\ toasts' = <<showToast(<<"Please upload an image file">>, "error")>>
              /\ UNCHANGED <<documentFile, documentImageFile>>
    /\ last' = Record("dropFile", NoRequest, NoResponse)
    /\ UNCHANGED <<currentStep, ocrResult, selfieFile, combinedResults, loading, pending>>
    /\ loadingCalls' = <<>>

\* removeBtn 'click'
RemoveFile ==
    /\ currentStep = 1
    /\ documentFile' = Null
    /\ documentImageFile' = Null
    /\ toasts' = <<>>
    /\ last' = Record("removeFile", NoRequest, NoResponse)
    /\ UNCHANGED <<currentStep, ocrResult, selfieFile, combinedResults, loading, pending>>
    /\ loadingCalls' = <<>>

\* variant: the wizard moves on as soon as the form is submitted
processOCRAndContinue_advanceOnSubmit ==
    IF documentFile = Null
      THEN /\ toasts' = <<showToast(<<"Please select a file">>, "error")>>
           /\ last' = Record("submitDocument", NoRequest, NoResponse)
           /\ UNCHANGED <<currentStep, ocrResult, documentImageFile, documentFile,
                          selfieFile, combinedResults, loading, pending>>
           /\ loadingCalls' = <<>>
      ELSE /\ BagCardinality(pending) < MaxPending
           /\ LET request == OcrRequest(documentFile) IN
                /\ pending' = Send(request)
                /\ last' = Record("submitDocument", request, NoResponse)
           /\ loading' = showLoading(TRUE)
           /\ loadingCalls' = <<TRUE>>
           /\ toasts' = <<>>
           /\ currentStep' = goToStep(2)
           /\ UNCHANGED <<ocrResult, documentImageFile, documentFile,
                          selfieFile, combinedResults>>

\* variant: the overlay is shown before the file is looked for
processOCRAndContinue_loadingBeforeCheck ==
    IF documentFile = Null
      THEN /\ loading' = showLoading(TRUE)
           /\ loadingCalls' = <<TRUE>>
           /\ toasts' = <<showToast(<<"Please select a file">>, "error")>>
           /\ last' = Record("submitDocument", NoRequest, NoResponse)
           /\ UNCHANGED <<currentStep, ocrResult, documentImageFile, documentFile,
                          selfieFile, combinedResults, pending>>
      ELSE /\ BagCardinality(pending) < MaxPending
           /\ LET request == OcrRequest(documentFile) IN
                /\ pending' = Send(request)
                /\ last' = Record("submitDocument", request, NoResponse)
           /\ loading' = showLoading(TRUE)
           /\ loadingCalls' = <<TRUE>>
           /\ toasts' = <<>>
           /\ UNCHANGED <<currentStep, ocrResult, documentImageFile, documentFile,
                          selfieFile, combinedResults>>

\* ocrForm 'submit': processOCRAndContinue up to its await
processOCRAndContinue ==
    IF documentFile = Null
      THEN /\ toasts' = <<showToast(<<"Please select a file">>, "error")>>
           /\ last' = Record("submitDocument", NoRequest, NoResponse)
           /\ UNCHANGED <<currentStep, ocrResult, documentImageFile, documentFile,
                          selfieFile, combinedResults, loading, pending>>
           /\ loadingCalls' = <<>>
      ELSE /\ BagCardinality(pending) < MaxPending
           /\ LET request == OcrRequest(documentFile) IN
                /\ pending' = Send(request)
                /\ last' = Record("submitDocument", request, NoResponse)
           /\ loading' = showLoading(TRUE)
           /\ loadingCalls' = <<TRUE>>
           /\ toasts' = <<>>
           /\ UNCHANGED <<currentStep, ocrResult, documentImageFile, documentFile,
                          selfieFile, combinedResults>>

SubmitDocument ==
    /\ currentStep = 1
    /\ processOCRAndContinue

\* variant: data.data is stored before data.success is looked at
OcrContinuation_storeBeforeCheck(request, resp) ==
    /\ pending' = Settle(request)
    /\ loading' = showLoading(FALSE)
    /\ loadingCalls' = <<FALSE>>
    /\ last' = Record("ocrResponse", request, resp)
    /\ IF Parsed(resp)
         THEN /\ ocrResult' = resp.data
              /\ IF resp.success
                   THEN /\ toasts' = <<showToast(<<"Document processed! Now upload selfie">>, "success")>>
                        /\ currentStep' = goToStep(2)
                   ELSE /\ toasts' = <<showToast(<<"OCR failed: ", resp.error>>, "error")>>
                        /\ UNCHANGED currentStep
         ELSE /\ toasts' = <<showToast(<<"Error processing document">>, "error")>>
              /\ UNCHANGED <<currentStep, ocrResult>>
    /\ UNCHANGED <<documentImageFile, documentFile, selfieFile, combinedResults>>

\* variant: a failure empties the document form
OcrContinuation_clearFormOnFailure(request, resp) ==
    /\ pending' = Settle(request)
    /\ loading' = showLoading(FALSE)
    /\ loadingCalls' = <<FALSE>>
    /\ last' = Record("ocrResponse", request, resp)
    /\ IF Parsed(resp) /\ resp.success
         THEN /\ ocrResult' = resp.data
              /\ toasts' = <<showToast(<<"Document processed! Now upload selfie">>, "success")>>
              /\ currentStep' = goToStep(2)
              /\ UNCHANGED documentFile
         ELSE /\ toasts' = <<showToast(<<"Error processing document">>, "error")>>
              /\ documentFile' = Null
              /\ UNCHANGED <<currentStep, ocrResult>>
    /\ UNCHANGED <<documentImageFile, selfieFile, combinedResults>>

\* processOCRAndContinue from the arrival of the response to its end
OcrContinuation(request, resp) ==
    /\ pending' = Settle(request)
    /\ loading' = showLoading(FALSE)
    /\ loadingCalls' = <<FALSE>>
    /\ last' = Record("ocrResponse", request, resp)
    /\ IF Parsed(resp)
         THEN IF resp.success
                THEN /\ ocrResult' = resp.data
                     /\ toasts' = <<showToast(<<"Document processed! Now upload selfie">>, "success")>>
                     /\ currentStep' = goToStep(2)
                ELSE /\ toasts' = <<showToast(<<"OCR failed: ", resp.error>>, "error")>>
                     /\ UNCHANGED <<currentStep, ocrResult>>
         ELSE /\ toasts' = <<showToast(<<"Error processing document">>, "error")>>
              /\ UNCHANGED <<currentStep, ocrResult>>
    /\ UNCHANGED <<documentImageFile, documentFile, selfieFile, combinedResults>>

OcrResponse ==
    \E request \in BagToSet(pending), resp \in Responses(OcrPayloads) :
        /\ request.url = "/kyc/ocr"
        /\ OcrContinuation(request, resp)


\* --------------------------------------------------- step 2: the selfie
\* selfieInput 'change'
SelectSelfie(file) ==
    /\ currentStep = 2
    /\ selfieFile' = file
    /\ toasts' = <<>>
    /\ last' = Record("selectSelfie", NoRequest, NoResponse)
    /\ UNCHANGED <<currentStep, ocrResult, documentImageFile, documentFile,
                   combinedResults, loading, pending>>
    /\ loadingCalls' = <<>>

\* removeBtn 'click' of the selfie area
RemoveSelfie ==
    /\ currentStep = 2
    /\ selfieFile' = Null
    /\ toasts' = <<>>
    /\ last' = Record("removeSelfie", NoRequest, NoResponse)
    /\ UNCHANGED <<currentStep, ocrResult, documentImageFile, documentFile,
                   combinedResults, loading, pending>>
    /\ loadingCalls' = <<>>

\* variant: the return after goToStep(1) is missing, so the request is
\* sent without a document image
processFaceComparison_noReturn ==
    IF selfieFile = Null
      THEN /\ toasts' = (IF documentImageFile = Null
                           THEN <<showToast(<<"Document image not found. Please start over.">>, "error")>>
                           ELSE <<>>)
                         \o <<showToast(<<"Please select a selfie">>, "error")>>
           /\ currentStep' = (IF documentImageFile = Null THEN goToStep(1) ELSE currentStep)
           /\ last' = Record("submitSelfie", NoRequest, NoResponse)
           /\ UNCHANGED <<ocrResult, documentImageFile, documentFile, selfieFile,
                          combinedResults, loading, pending>>
           /\ loadingCalls' = <<>>
      ELSE /\ BagCardinality(pending) < MaxPending
           /\ LET request == FaceRequest(documentImageFile, selfieFile) IN
                /\ pending' = Send(request)
                /\ last' = Record("submitSelfie", request, NoResponse)
           /\ loading' = showLoading(TRUE)
           /\ loadingCalls' = <<TRUE>>
           /\ toasts' = (IF documentImageFile = Null
                           THEN <<showToast(<<"Document image not found. Please start over.">>, "error")>>
                           ELSE <<>>)
           /\ currentStep' = (IF documentImageFile = Null THEN goToStep(1) ELSE currentStep)
           /\ UNCHANGED <<ocrResult, documentImageFile, documentFile,
                          selfieFile, combinedResults>>

\* selfieForm 'submit': processFaceComparison up to its await
processFaceComparison ==
    IF documentImageFile = Null
      THEN /\ toasts' = <<showToast(<<"Document image not found. Please start over.">>, "error")>>
           /\ currentStep' = goToStep(1)
           /\ last' = Record("submitSelfie", NoRequest, NoResponse)
           /\ UNCHANGED <<ocrResult, documentImageFile, documentFile, selfieFile,
                          combinedResults, loading, pending>>
           /\ loadingCalls' = <<>>
      ELSE IF selfieFile = Null
        THEN /\ toasts' = <<showToast(<<"Please select a selfie">>, "error")>>
             /\ last' = Record("submitSelfie", NoRequest, NoResponse)
             /\ UNCHANGED <<currentStep, ocrResult, documentImageFile, documentFile,
                            selfieFile, combinedResults, loading, pending>>
             /\ loadingCalls' = <<>>
        ELSE /\ BagCardinality(pending) < MaxPending
             /\ LET request == FaceRequest(documentImageFile, selfieFile) IN
                  /\ pending' = Send(request)
                  /\ last' = Record("submitSelfie", request, NoResponse)
             /\ loading' = showLoading(TRUE)
             /\ loadingCalls' = <<TRUE>>
             /\ toasts' = <<>>
             /\ UNCHANGED <<currentStep, ocrResult, documentImageFile, documentFile,
                            selfieFile, combinedResults>>

SubmitSelfie ==
    /\ currentStep = 2
    /\ processFaceComparison

\* displayCombinedResults returns normally: every property it reads exists
\* (faceData.comparison, .verification, .age_analysis, .feature_comparison,
\* ocrData.extracted_details); otherwise it throws before touching the page
Renders(ocrData, faceData) ==
    /\ ocrData \in WellFormedOcr
    /\ faceData \in WellFormedFace

\* variant: the page is built from the OCR data only
displayCombinedResults_ocrOnly(ocrData, faceData) == [ocr |-> ocrData, face |-> Null]

\* container.innerHTML after displayCombinedResults
displayCombinedResults(ocrData, faceData) == [ocr |-> ocrData, face |-> faceData]

\* variant: a reported failure sends the user back to step 1 with the
\* generic message
FaceContinuation_restartOnFailure(request, resp) ==
    /\ pending' = Settle(request)
    /\ loading' = showLoading(FALSE)
    /\ loadingCalls' = <<FALSE>>
    /\ last' = Record("faceResponse", request, resp)
    /\ IF Parsed(resp) /\ resp.success /\ Renders(ocrResult, resp.data)
         THEN /\ combinedResults' = displayCombinedResults(ocrResult, resp.data)
              /\ toasts' = <<showToast(<<"Verification complete!">>, "success")>>
              /\ currentStep' = goToStep(3)
         ELSE /\ toasts' = <<showToast(<<"Error comparing faces">>, "error")>>
              /\ currentStep' = (IF Parsed(resp) THEN goToStep(1) ELSE currentStep)
              /\ UNCHANGED combinedResults
    /\ UNCHANGED <<ocrResult, documentImageFile, documentFile, selfieFile>>

\* variant: the success notification is shown before the result is rendered
FaceContinuation_toastBeforeRender(request, resp) ==
    /\ pending' = Settle(request)
    /\ loading' = showLoading(FALSE)
    /\ loadingCalls' = <<FALSE>>
    /\ last' = Record("faceResponse", request, resp)
    /\ IF Parsed(resp)
         THEN IF resp.success
                THEN IF Renders(ocrResult, resp.data)
                       THEN /\ combinedResults' = displayCombinedResults(ocrResult, resp.data)
                            /\ toasts' = <<showToast(<<"Verification complete!">>, "success")>>
                            /\ currentStep' = goToStep(3)
                       ELSE /\ toasts' = <<showToast(<<"Verification complete!">>, "success"),
                                           showToast(<<"Error comparing faces">>, "error")>>
                            /\ UNCHANGED <<currentStep, combinedResults>>
                ELSE /\ toasts' = <<showToast(<<"Face comparison failed: ", resp.error>>, "error")>>
                     /\ UNCHANGED <<currentStep, combinedResults>>
         ELSE /\ toasts' = <<showToast(<<"Error comparing faces">>, "error")>>
              /\ UNCHANGED <<currentStep, combinedResults>>
    /\ UNCHANGED <<ocrResult, documentImageFile, documentFile, selfieFile>>

\* variant: the document image is released once the comparison is done
FaceContinuation_releaseDocument(request, resp) ==
    /\ pending' = Settle(request)
    /\ loading' = showLoading(FALSE)
    /\ loadingCalls' = <<FALSE>>
    /\ last' = Record("faceResponse", request, resp)
    /\ IF Parsed(resp) /\ resp.success /\ Renders(ocrResult, resp.data)
         THEN /\ combinedResults' = displayCombinedResults(ocrResult, resp.data)
              /\ toasts' = <<showToast(<<"Verification complete!">>, "success")>>
              /\ currentStep' = goToStep(3)
              /\ documentImageFile' = Null
         ELSE /\ toasts' = <<IF Parsed(resp) /\ ~resp.success
                               THEN showToast(<<"Face comparison failed: ", resp.error>>, "error")
                               ELSE showToast(<<"Error comparing faces">>, "error")>>
              /\ UNCHANGED <<currentStep, combinedResults, documentImageFile>>
    /\ UNCHANGED <<ocrResult, documentFile, selfieFile>>

\* processFaceComparison from the arrival of the response to its end
FaceContinuation(request, resp) ==
    /\ pending' = Settle(request)
    /\ loading' = showLoading(FALSE)
    /\ last' = Record("faceResponse", request, resp)
    /\ IF Parsed(resp)
         THEN IF resp.success
                THEN IF Renders(ocrResult, resp.data)
                       THEN /\ loadingCalls' = <<FALSE>>
                            /\ combinedResults' = displayCombinedResults(ocrResult, resp.data)
                            /\ toasts' = <<showToast(<<"Verification complete!">>, "success")>>
                            /\ currentStep' = goToStep(3)
                       ELSE \* the throw lands in the catch block, which
                            \* calls showLoading(false) once more
                            /\ loadingCalls' = <<FALSE, FALSE>>
                            /\ toasts' = <<showToast(<<"Error comparing faces">>, "error")>>
                            /\ UNCHANGED <<currentStep, combinedResults>>
                ELSE /\ loadingCalls' = <<FALSE>>
                     /\ toasts' = <<showToast(<<"Face comparison failed: ", resp.error>>, "error")>>
                     /\ UNCHANGED <<currentStep, combinedResults>>
         ELSE /\ loadingCalls' = <<FALSE>>
              /\ toasts' = <<showToast(<<"Error comparing faces">>, "error")>>
              /\ UNCHANGED <<currentStep, combinedResults>>
    /\ UNCHANGED <<ocrResult, documentImageFile, documentFile, selfieFile>>

FaceResponse ==
    \E request \in BagToSet(pending), resp \in Responses(FacePayloads) :
        /\ request.url = "/kyc/face-compare"
        /\ FaceContinuation(request, resp)

\* ---------------------------------------------------------------- reset
\* variant: the document image is taken back from the file input, which
\* the form reset empties only afterwards
resetVerification_restoreFromInput(s) ==
    [s EXCEPT !.ocrResult = Null,
              !.documentImageFile = s.documentFile,
              !.documentFile = Null,
              !.selfieFile = Null,
              !.currentStep = goToStep(1)]

\* variant: the first step is addressed by its zero-based index
resetVerification_stepZero(s) ==
    [s EXCEPT !.ocrResult = Null,
              !.documentImageFile = Null,
              !.documentFile = Null,
              !.selfieFile = Null,
              !.currentStep = goToStep(0)]

\* the session after resetVerification
resetVerification(s) ==
    [s EXCEPT !.ocrResult = Null,
              !.documentImageFile = Null,
              !.documentFile = Null,
              !.selfieFile = Null,
              !.currentStep = goToStep(1)]

ResetVerification ==
    /\ LET s == resetVerification(Session) IN
         /\ currentStep' = s.currentStep
         /\ ocrResult' = s.ocrResult
         /\ documentImageFile' = s.documentImageFile
         /\ documentFile' = s.documentFile
         /\ selfieFile' = s.selfieFile
         /\ combinedResults' = s.combinedResults
    /\ toasts' = <<>>
    /\ last' = Record("resetVerification", NoRequest, NoResponse)
    /\ pending' = MarkReset(pending)
    /\ UNCHANGED loading
    /\ loadingCalls' = <<>>


\* ================================================== frontend/script.js
\* The second script of the repository drives the same page elements with
\* simulated back ends: the OCR form moves on at once and the selfie form
\* answers after a fixed delay.  Its state is separate from the wizard
\* above.
Zones == {"file", "selfie"}

ZoneFiles(zone) == IF zone = "file" THEN DocumentFiles ELSE SelfieFiles

\* the step whose form holds the drop zone
ZoneStep(zone) == IF zone = "file" THEN 1 ELSE 2

\* file.type.startsWith('image/')
IsImageType(file) == file \in ImageFiles \cup SelfieFiles

VARIABLES
    shownStep,      \* the step-N element displayed by window.goToStep
    inputs,         \* zone -> files[0] of the zone's file input
    previews,       \* zone -> the zone's preview element is displayed
    reading,        \* zones with a FileReader that has not loaded yet
    delays,         \* bag of selfie submissions waiting in their setTimeout
    systemLoading,  \* the overlay's opacity is 1
    resultsShown,   \* #combined-results has been filled
    scriptToasts,   \* showToast calls of the most recent handler
    lastScript      \* the most recent handler of this script

scriptVars ==
    <<shownStep, inputs, previews, reading, delays, systemLoading,
      resultsShown, scriptToasts, lastScript>>

\* history: the handler that ran last, the document input it started with,
\* whether the delay it ended had begun before a reset, and whether
\* resetVerification has run with no OCR submission after it
RecordScript(op, stale, sinceReset) ==
    [op |-> op, preFile |-> inputs["file"], stale |-> stale,
     sinceReset |-> sinceReset]

showSystemLoading(show) == show

ScriptInit ==
    /\ shownStep = 1
    /\ inputs = [zone \in Zones |-> Null]
    /\ previews = [zone \in Zones |-> FALSE]
    /\ reading = {}
    /\ delays = EmptyBag
    /\ systemLoading = FALSE
    /\ resultsShown = FALSE
    /\ scriptToasts = <<>>
    /\ lastScript = [op |-> "load", preFile |-> Null, stale |-> FALSE,
                     sinceReset |-> FALSE]

\* handleFiles: a non-image is refused with a notification, an image is
\* handed to a FileReader whose onload shows the preview
handleFiles(zone, file) ==
    IF IsImageType(file)
      THEN /\ reading' = reading \cup {zone}
           /\ scriptToasts' = <<>>
      ELSE /\ scriptToasts' = <<showToast(<<"Please upload an image file.">>, "error")>>
           /\ UNCHANGED reading

\* input 'change': the browser has put the chosen file into the input
ZoneChange(zone, file) ==
    /\ shownStep = ZoneStep(zone)
    /\ inputs' = [inputs EXCEPT ![zone] = file]
    /\ handleFiles(zone, file)
    /\ lastScript' = RecordScript("change", FALSE, lastScript.sinceReset)
    /\ UNCHANGED <<shownStep, previews, delays, systemLoading, resultsShown>>

\* zone 'drop': input.files = files, then handleFiles
ZoneDrop(zone, file) ==
    /\ shownStep = ZoneStep(zone)
    /\ inputs' = [inputs EXCEPT ![zone] = file]
    /\ handleFiles(zone, file)
    /\ lastScript' = RecordScript("drop", FALSE, lastScript.sinceReset)
    /\ UNCHANGED <<shownStep, previews, delays, systemLoading, resultsShown>>

\* reader.onload
ReaderLoaded(zone) ==
    /\ zone \in reading
    /\ reading' = reading \ {zone}
    /\ previews' = [previews EXCEPT ![zone] = TRUE]
    /\ scriptToasts' = <<>>
    /\ lastScript' = RecordScript("readerLoaded", FALSE, lastScript.sinceReset)
    /\ UNCHANGED <<shownStep, inputs, delays, systemLoading, resultsShown>>

\* removeBtn 'click'
ZoneRemove(zone) ==
    /\ shownStep = ZoneStep(zone)
    /\ inputs' = [inputs EXCEPT ![zone] = Null]
    /\ previews' = [previews EXCEPT ![zone] = FALSE]
    /\ scriptToasts' = <<>>
    /\ lastScript' = RecordScript("remove", FALSE, lastScript.sinceReset)
    /\ UNCHANGED <<shownStep, reading, delays, systemLoading, resultsShown>>

\* ocr-form 'submit'
SubmitOcrForm ==
    /\ shownStep = 1
    /\ shownStep' = goToStep(2)
    /\ scriptToasts' = <<>>
    /\ lastScript' = RecordScript("submitOcrForm", FALSE, FALSE)
    /\ UNCHANGED <<inputs, previews, reading, delays, systemLoading, resultsShown>>

\* selfie-form 'submit' up to its await
SubmitSelfieForm ==
    /\ shownStep = 2
    /\ BagCardinality(delays) < MaxDelays
    /\ systemLoading' = showSystemLoading(TRUE)
    /\ delays' = delays (+) SetToBag({[resetSince |-> FALSE]})
    /\ scriptToasts' = <<>>
    /\ lastScript' = RecordScript("submitSelfieForm", FALSE, lastScript.sinceReset)
    /\ UNCHANGED <<shownStep, inputs, previews, reading, resultsShown>>

\* selfie-form 'submit' from the end of its 2500 ms delay
SelfieDelayDone ==
    \E delay \in BagToSet(delays) :
        /\ delays' = delays (-) SetToBag({delay})
        /\ systemLoading' = showSystemLoading(FALSE)
        /\ resultsShown' = TRUE
        /\ shownStep' = goToStep(3)
        /\ scriptToasts' = <<showToast(<<"KYC Verification Passed">>, "success")>>
        /\ lastScript' = RecordScript("selfieDelayDone", delay.resetSince,
                                      lastScript.sinceReset)
        /\ UNCHANGED <<inputs, previews, reading>>

\* the running delays after a reset: the same number, each marked as begun
\* before the reset
MarkDelays(bag) ==
    IF bag = EmptyBag
      THEN EmptyBag
      ELSE [d \in {[resetSince |-> TRUE]} |-> BagCardinality(bag)]

\* window.resetVerification: both forms are reset, both remove buttons are
\* clicked, step 1 is shown; a running delay is not cancelled
ScriptResetVerification ==
    /\ inputs' = [zone \in Zones |-> Null]
    /\ previews' = [zone \in Zones |-> FALSE]
    /\ shownStep' = goToStep(1)
    /\ delays' = MarkDelays(delays)
    /\ scriptToasts' = <<>>
    /\ lastScript' = RecordScript("resetVerification", FALSE, TRUE)
    /\ UNCHANGED <<reading, systemLoading, resultsShown>>


\* ------------------------------------- frontend/script.js: navigation
Tabs == {"dashboard", "kyc", "aml"}

VARIABLES
    activeLinks,    \* nav links that carry the class 'active'
    displayedTabs,  \* tab contents whose style.display is 'block'
    activeTabs,     \* tab contents that carry the class 'active'
    navTimers,      \* targets of the 10 ms timers not yet fired, oldest first
    mobileOpen,     \* the sidebar carries the class 'mobile-open'
    lastClick       \* the target of the most recent nav-link click

navVars == <<activeLinks, displayedTabs, activeTabs, navTimers, mobileOpen, lastClick>>

\* the page as served: the dashboard link and tab are the active ones
NavInit ==
    /\ activeLinks = {"dashboard"}
    /\ displayedTabs = {"dashboard"}
    /\ activeTabs = {"dashboard"}
    /\ navTimers = <<>>
    /\ mobileOpen = FALSE
    /\ lastClick = "dashboard"

\* nav-link 'click'
NavClick(targetTab) ==
    /\ Len(navTimers) < MaxTimers
    /\ activeLinks' = {targetTab}
    /\ displayedTabs' = {targetTab}
    /\ activeTabs' = {}
    /\ navTimers' = Append(navTimers, targetTab)
    /\ mobileOpen' = FALSE
    /\ lastClick' = targetTab

\* the callback of setTimeout(..., 10): timers of equal delay fire in the
\* order they were set
NavTimerFires ==
    /\ navTimers # <<>>
    /\ activeTabs' = activeTabs \cup {Head(navTimers)}
    /\ navTimers' = Tail(navTimers)
    /\ UNCHANGED <<activeLinks, displayedTabs, mobileOpen, lastClick>>

\* mobile-menu-toggle 'click'
ToggleMobileMenu ==
    /\ mobileOpen' = ~mobileOpen
    /\ UNCHANGED <<activeLinks, displayedTabs, activeTabs, navTimers, lastClick>>


\* ======================================= part_001: the live dashboard
\* The recent-transactions table body and the recent-alerts container are
\* lists of DOM child nodes.  innerHTML built from an indented template
\* leaves a whitespace text node before, between and after the elements;
\* children counts elements only, firstChild and lastChild are nodes of
\* any kind.
MaxRows == 5
LoadLimit == 5

TextNode == [kind |-> "text", id |-> 0]
\* the <p class="loading"> written when the list is empty
Placeholder == [kind |-> "placeholder", id |-> 0]
\* a row or alert written by a dashboard load
Loaded == [kind |-> "entry", id |-> 0]
\* the row or alert of the id-th live event
Live(id) == [kind |-> "entry", id |-> id]

\* container.children.length
Children(nodes) == Cardinality({i \in DOMAIN nodes : nodes[i].kind # "text"})

\* the rows or alerts among the nodes
Entries(nodes) == Cardinality({i \in DOMAIN nodes : nodes[i].kind = "entry"})

\* the child nodes after innerHTML = the template over n items
Rendered(n) == [i \in 1..(2 * n + 1) |-> IF i % 2 = 1 THEN TextNode ELSE Loaded]

\* the page without a table: the query for the tbody finds nothing
NoTable == [exists |-> FALSE, nodes |-> <<>>]

VARIABLES
    tbody,            \* '#recent-transactions table tbody': whether it exists, its child nodes
    alertList,        \* child nodes of #recent-alerts
    dashboardActive,  \* #dashboard-tab carries the class 'active'
    dashboardLoads,   \* bag of loadDashboard calls by the fetch they wait for
    received,         \* number of live events received
    newest            \* the last event received for each list since it was rendered

feedVars == <<tbody, alertList, dashboardActive, dashboardLoads, received, newest>>

\* the page when the script starts: both containers empty, the dashboard
\* tab active, and the loadDashboard call of DOMContentLoaded under way
FeedInit ==
    /\ tbody = NoTable
    /\ alertList = <<>>
    /\ dashboardActive = TRUE
    /\ dashboardLoads = SetToBag({"transactions"})
    /\ received = 0
    /\ newest = [transaction |-> 0, alert |-> 0]

displayRecentTransactions(n) ==
    IF n = 0 THEN NoTable ELSE [exists |-> TRUE, nodes |-> Rendered(n)]

displayRecentAlerts(n) == IF n = 0 THEN <<Placeholder>> ELSE Rendered(n)

LoadOutcomes == {"rejected", "failure", "success"}

\* loadDashboard from the answer of /transactions/recent?limit=5
TransactionsLoaded(outcome, n) ==
    /\ "transactions" \in BagToSet(dashboardLoads)
    /\ dashboardLoads' = (dashboardLoads (-) SetToBag({"transactions"}))
                           (+) (IF outcome = "rejected" THEN EmptyBag
                                ELSE SetToBag({"alerts"}))
    /\ IF outcome = "success"
         THEN /\ tbody' = displayRecentTransactions(n)
              /\ newest' = [newest EXCEPT !.transaction = 0]
         ELSE UNCHANGED <<tbody, newest>>
    /\ UNCHANGED <<alertList, dashboardActive, received>>

\* loadDashboard from the answer of /alerts/recent?limit=5
AlertsLoaded(outcome, n) ==
    /\ "alerts" \in BagToSet(dashboardLoads)
    /\ dashboardLoads' = dashboardLoads (-) SetToBag({"alerts"})
    /\ IF outcome = "success"
         THEN /\ alertList' = displayRecentAlerts(n)
              /\ newest' = [newest EXCEPT !.alert = 0]
         ELSE UNCHANGED <<alertList, newest>>
    /\ UNCHANGED <<tbody, dashboardActive, received>>

\* nav-link 'click' of the dashboard script
TabClick(tab) ==
    /\ dashboardActive' = (tab = "dashboard")
    /\ IF tab = "dashboard"
         THEN /\ BagCardinality(dashboardLoads) < MaxLoads
              /\ dashboardLoads' = dashboardLoads (+) SetToBag({"transactions"})
         ELSE UNCHANGED dashboardLoads
    /\ UNCHANGED <<tbody, alertList, received, newest>>

\* insertBefore(node, firstChild), then removeChild(lastChild) if there are
\* more than five children
prependNode(nodes, node) ==
    LET inserted == <<node>> \o nodes
    IN  IF Children(inserted) > MaxRows
          THEN SubSeq(inserted, 1, Len(inserted) - 1)
          ELSE inserted

\* socket 'new_transaction': handleNewTransaction, prependTransactionToTable
NewTransaction ==
    /\ received < MaxEvents
    /\ received' = received + 1
    /\ newest' = [newest EXCEPT !.transaction = received + 1]
    /\ IF dashboardActive /\ tbody.exists
         THEN tbody' = [tbody EXCEPT !.nodes = prependNode(tbody.nodes, Live(received + 1))]
         ELSE UNCHANGED tbody
    /\ UNCHANGED <<alertList, dashboardActive, dashboardLoads>>

\* socket 'new_alert': handleNewAlert, prependAlertToList
NewAlert ==
    /\ received < MaxEvents
    /\ received' = received + 1
    /\ newest' = [newest EXCEPT !.alert = received + 1]
    /\ IF dashboardActive
         THEN alertList' = prependNode(alertList, Live(received + 1))
         ELSE UNCHANGED alertList
    /\ UNCHANGED <<tbody, dashboardActive, dashboardLoads>>


\* ================================================== part_000: the chat
ChatInputs == {"", "  ", "hello"}

\* String.prototype.trim
trim(text) == IF text \in {"", "  "} THEN "" ELSE text

QuickQuestions == {"What is KYC?"}

ChatPayloads == {Undefined, "reply"}

VARIABLES
    chatInput,     \* #chat-message value
    chatMessages,  \* children of #chat-messages, oldest first
    chatRequests,  \* user messages whose /chat request is not yet answered
    chatTimers,    \* replies waiting in their 500 ms timer, oldest first
    sent           \* number of user messages sent

chatVars == <<chatInput, chatMessages, chatRequests, chatTimers, sent>>

ChatInit ==
    /\ chatInput = ""
    /\ chatMessages = <<>>
    /\ chatRequests = {}
    /\ chatTimers = <<>>
    /\ sent = 0

\* the children of #chat-messages after addMessage; id is history: the
\* number of the user message, or of the user message a bot message answers
addMessage(text, sender, id) ==
    Append(chatMessages, [sender |-> sender, text |-> text, id |-> id])

\* the user types into #chat-message
TypeMessage(text) ==
    /\ chatInput' = text
    /\ UNCHANGED <<chatMessages, chatRequests, chatTimers, sent>>

\* chat-form 'submit' up to the await in sendChatMessage
SubmitChat ==
    LET message == trim(chatInput) IN
      /\ message # ""
      /\ sent < MaxMessages
      /\ sent' = sent + 1
      /\ chatMessages' = addMessage(message, "user", sent + 1)
      /\ chatInput' = ""
      /\ chatRequests' = chatRequests \cup {sent + 1}
      /\ UNCHANGED chatTimers

\* quick-btn 'click' up to the await in sendChatMessage
QuickQuestion(question) ==
    /\ sent < MaxMessages
    /\ sent' = sent + 1
    /\ chatMessages' = addMessage(question, "user", sent + 1)
    /\ chatRequests' = chatRequests \cup {sent + 1}
    /\ UNCHANGED <<chatInput, chatTimers>>

\* sendChatMessage from the arrival of the response to its end
ChatContinuation(id, resp) ==
    /\ chatRequests' = chatRequests \ {id}
    /\ IF Parsed(resp)
         THEN IF resp.success
                THEN /\ chatTimers' = Append(chatTimers, [id |-> id, data |-> resp.data])
                     /\ UNCHANGED chatMessages
                ELSE /\ chatMessages' =
                          addMessage("Sorry, I encountered an error. Please try again.", "bot", id)
                     /\ UNCHANGED chatTimers
         ELSE /\ chatMessages' =
                   addMessage("Sorry, I'm having trouble connecting. Please try again.", "bot", id)
              /\ UNCHANGED chatTimers
    /\ UNCHANGED <<chatInput, sent>>

ChatResponse ==
    \E id \in chatRequests, resp \in Responses(ChatPayloads) :
        ChatContinuation(id, resp)

\* the callback of setTimeout(..., 500): reading data.data.response throws
\* when data is missing, and nothing is appended
ChatTimerFires ==
    /\ chatTimers # <<>>
    /\ chatTimers' = Tail(chatTimers)
    /\ IF Present(Head(chatTimers).data)
         THEN chatMessages' = addMessage(Head(chatTimers).data, "bot", Head(chatTimers).id)
         ELSE UNCHANGED chatMessages
    /\ UNCHANGED <<chatInput, chatRequests, sent>>

\* -------------------------------------------------------- specification
vars == <<wizardVars, scriptVars, navVars, feedVars, chatVars>>

Init ==
    /\ WizardInit
    /\ ScriptInit
    /\ NavInit
    /\ FeedInit
    /\ ChatInit

\* the verification wizard of part_001
Next ==
    \/ (\E file \in DocumentFiles : SelectFile(file))
         /\ UNCHANGED <<scriptVars, navVars, feedVars, chatVars>>
    \/ (\E file \in DocumentFiles : DropFile(file))
         /\ UNCHANGED <<scriptVars, navVars, feedVars, chatVars>>
    \/ RemoveFile /\ UNCHANGED <<scriptVars, navVars, feedVars, chatVars>>
    \/ SubmitDocument /\ UNCHANGED <<scriptVars, navVars, feedVars, chatVars>>
    \/ OcrResponse /\ UNCHANGED <<scriptVars, navVars, feedVars, chatVars>>
    \/ (\E file \in SelfieFiles : SelectSelfie(file))
         /\ UNCHANGED <<scriptVars, navVars, feedVars, chatVars>>
    \/ RemoveSelfie /\ UNCHANGED <<scriptVars, navVars, feedVars, chatVars>>
    \/ SubmitSelfie /\ UNCHANGED <<scriptVars, navVars, feedVars, chatVars>>
    \/ FaceResponse /\ UNCHANGED <<scriptVars, navVars, feedVars, chatVars>>
    \/ ResetVerification /\ UNCHANGED <<scriptVars, navVars, feedVars, chatVars>>

Spec == Init /\ [][Next]_vars

\* the verification wizard of frontend/script.js
NextScript ==
    \/ (\E zone \in Zones : \E file \in ZoneFiles(zone) : ZoneChange(zone, file))
         /\ UNCHANGED <<wizardVars, navVars, feedVars, chatVars>>
    \/ (\E zone \in Zones : \E file \in ZoneFiles(zone) : ZoneDrop(zone, file))
         /\ UNCHANGED <<wizardVars, navVars, feedVars, chatVars>>
    \/ (\E zone \in Zones : ReaderLoaded(zone))
         /\ UNCHANGED <<wizardVars, navVars, feedVars, chatVars>>
    \/ (\E zone \in Zones : ZoneRemove(zone))
         /\ UNCHANGED <<wizardVars, navVars, feedVars, chatVars>>
    \/ SubmitOcrForm /\ UNCHANGED <<wizardVars, navVars, feedVars, chatVars>>
    \/ SubmitSelfieForm /\ UNCHANGED <<wizardVars, navVars, feedVars, chatVars>>
    \/ SelfieDelayDone /\ UNCHANGED <<wizardVars, navVars, feedVars, chatVars>>
    \/ ScriptResetVerification /\ UNCHANGED <<wizardVars, navVars, feedVars, chatVars>>

SpecScript == Init /\ [][NextScript]_vars

\* the tab navigation of frontend/script.js
NextNav ==
    \/ (\E tab \in Tabs : NavClick(tab))
         /\ UNCHANGED <<wizardVars, scriptVars, feedVars, chatVars>>
    \/ NavTimerFires /\ UNCHANGED <<wizardVars, scriptVars, feedVars, chatVars>>
    \/ ToggleMobileMenu /\ UNCHANGED <<wizardVars, scriptVars, feedVars, chatVars>>

SpecNav == Init /\ [][NextNav]_vars

\* the live dashboard of part_001
NextFeed ==
    \/ (\E outcome \in LoadOutcomes, n \in 0..LoadLimit : TransactionsLoaded(outcome, n))
         /\ UNCHANGED <<wizardVars, scriptVars, navVars, chatVars>>
    \/ (\E outcome \in LoadOutcomes, n \in 0..LoadLimit : AlertsLoaded(outcome, n))
         /\ UNCHANGED <<wizardVars, scriptVars, navVars, chatVars>>
    \/ (\E tab \in Tabs : TabClick(tab))
         /\ UNCHANGED <<wizardVars, scriptVars, navVars, chatVars>>
    \/ NewTransaction /\ UNCHANGED <<wizardVars, scriptVars, navVars, chatVars>>
    \/ NewAlert /\ UNCHANGED <<wizardVars, scriptVars, navVars, chatVars>>

SpecFeed == Init /\ [][NextFeed]_vars

\* the chat of part_000
NextChat ==
    \/ (\E text \in ChatInputs : TypeMessage(text))
         /\ UNCHANGED <<wizardVars, scriptVars, navVars, feedVars>>
    \/ SubmitChat /\ UNCHANGED <<wizardVars, scriptVars, navVars, feedVars>>
    \/ (\E question \in QuickQuestions : QuickQuestion(question))
         /\ UNCHANGED <<wizardVars, scriptVars, navVars, feedVars>>
    \/ ChatResponse /\ UNCHANGED <<wizardVars, scriptVars, navVars, feedVars>>
    \/ ChatTimerFires /\ UNCHANGED <<wizardVars, scriptVars, navVars, feedVars>>

SpecChat == Init /\ [][NextChat]_vars

TypeOK ==
    /\ currentStep \in Nat
    /\ loading \in BOOLEAN
    /\ BagCardinality(pending) <= MaxPending


\* ------------------------------------------------------------ properties
OcrResponded == last.op = "ocrResponse"
FaceResponded == last.op = "faceResponse"

\* the response handled last carried a body with a true success member
ReportedSuccess ==
    /\ last.response.net = "response"
    /\ last.response.json
    /\ last.response.success

\* the response handled last carried a body with a false success member
ReportedFailure ==
    /\ last.response.net = "response"
    /\ last.response.json
    /\ ~last.response.success

\* the fetch was rejected, or answered with a non-2xx status, or with a body
\* that is not JSON
TransportFailed ==
    \/ last.response.net = "rejected"
    \/ /\ last.response.net = "response"
       /\ (last.response.status # 200 \/ ~last.response.json)

OneErrorToast == Len(toasts) = 1 /\ toasts[1].type = "error"

\* C1: in every reachable state the visible step is 1, 2 or 3.
StepInRange == currentStep \in {1, 2, 3}

StepInRangeWitness == FaceResponded /\ currentStep = 3

OcrSuccessStoresPayload ==
    (OcrResponded /\ ReportedSuccess) =>
        /\ currentStep = 2
        /\ ocrResult = last.response.data
        /\ Present(ocrResult)

\* C4 as stated: a face-comparison response that reports success leaves the
\* wizard in step 3 with the comparison payload stored.
FaceSuccessReachesResult ==
    (FaceResponded /\ ReportedSuccess /\ last.pre.currentStep = 2) =>
        /\ currentStep = 3
        /\ combinedResults.face = last.response.data

\* C4 as amended: a face-comparison response that reports success moves the
\* wizard to step 3 and puts the payload, with the stored OCR result, into
\* the combined-results container exactly when both can be rendered;
\* otherwise step and container stay as they were and an error is notified.
FaceSuccessRendersResult ==
    (FaceResponded /\ ReportedSuccess) =>
        IF last.pre.ocrResult \in WellFormedOcr /\ last.response.data \in WellFormedFace
          THEN /\ currentStep = 3
               /\ combinedResults = [ocr |-> last.pre.ocrResult,
                                     face |-> last.response.data]
          ELSE /\ currentStep = last.pre.currentStep
               /\ combinedResults = last.pre.combinedResults
               /\ OneErrorToast

FaceSuccessWitness ==
    /\ FaceResponded /\ ReportedSuccess
    /\ last.pre.currentStep = 2 /\ currentStep = 3
    /\ combinedResults.face = "face_A"

\* C5: a selfie submission made while documentImageFile is absent sends no
\* request, shows step 1 and emits one error notification.
SelfieWithoutDocumentForcesStep1 ==
    (last.op = "submitSelfie" /\ last.pre.documentImageFile = Null) =>
        /\ pending = last.prePending
        /\ currentStep = 1
        /\ OneErrorToast

SelfieWithoutDocumentWitness ==
    /\ last.op = "submitSelfie"
    /\ last.pre.documentImageFile = Null
    /\ last.pre.currentStep = 2

FaceFailureKeepsStep2 ==
    (FaceResponded /\ ReportedFailure) =>
        /\ Session = last.pre
        /\ toasts = <<[message |-> <<"Face comparison failed: ", last.response.error>>,
                       type |-> "error"]>>

FaceFailureWitness ==
    /\ FaceResponded /\ ReportedFailure
    /\ currentStep = 2
    /\ last.response.error = "face not detected"

\* C8: a transport failure on either request (rejected fetch, non-2xx
\* status, unparsable body) changes neither the step nor any session field
\* and is notified as an error.
TransportFailureIsLocal ==
    ((OcrResponded \/ FaceResponded) /\ TransportFailed) =>
        /\ Session = last.pre
        /\ OneErrorToast

\* C9: after a reset the wizard is in step 1 and the document image, the
\* OCR result, the selfie and the comparison result (the rendered one
\* included) are all absent.
ResetClearsEverything ==
    last.op = "resetVerification" =>
        /\ currentStep = 1
        /\ documentImageFile = Null
        /\ documentFile = Null
        /\ ocrResult = Null
        /\ selfieFile = Null
        /\ combinedResults = NothingRendered

\* C10: a reset that directly follows a reset changes nothing: two resets
\* in a row leave the session as one reset does.
ResetIdempotent ==
    (last.op = "resetVerification" /\ last.repeated) => Session = last.pre

ResetIdempotentWitness ==
    /\ last.op = "resetVerification" /\ last.repeated
    /\ combinedResults # NothingRendered
    /\ BagCardinality(pending) > 0


\* the handler that ran last sent a request
DocumentRequestSent ==
    /\ last.op = "submitDocument"
    /\ BagCardinality(pending) > BagCardinality(last.prePending)

SelfieRequestSent ==
    /\ last.op = "submitSelfie"
    /\ BagCardinality(pending) > BagCardinality(last.prePending)

\* C11: a face-comparison request is sent only while ocrResult is populated.
FaceRequestNeedsOcrResult ==
    SelfieRequestSent => Present(last.pre.ocrResult)

\* the response handled last belongs to a request sent before a reset, or
\* arrived when the wizard no longer showed the step that sent it
StaleResponse ==
    \/ OcrResponded /\ (last.request.resetSince \/ last.pre.currentStep # 1)
    \/ FaceResponded /\ (last.request.resetSince \/ last.pre.currentStep # 2)

\* C12: a response that arrives after a reset, or after the wizard has left
\* the step that sent the request, changes neither the step nor ocrResult
\* nor any other session field.
StaleResponseNotApplied ==
    StaleResponse => Session = last.pre

\* C13: at any time at most one request is outstanding.
AtMostOneOutstanding == BagCardinality(pending) <= 1

\* C14: no face-comparison request is sent while an OCR request is still
\* outstanding.
NoPipelining ==
    SelfieRequestSent => \A r \in DOMAIN last.prePending : r.url # "/kyc/ocr"

\* C15: once step 3 is shown, only a reset changes the step, and it shows
\* step 1.
Step3Terminal ==
    (last.pre.currentStep = 3 /\ currentStep # 3) =>
        (last.op = "resetVerification" /\ currentStep = 1)


\* C16: a submission that passes its guards sends exactly one request and
\* emits exactly one notification, which comes with the response whatever
\* its outcome; requests are sent by submissions only.
OneRequestOneNotification ==
    /\ (last.op = "submitDocument" /\ last.pre.documentFile # Null) =>
         /\ pending = last.prePending (+) SetToBag({OcrRequest(last.pre.documentFile)})
         /\ toasts = <<>>
    /\ (last.op = "submitSelfie" /\ last.pre.documentImageFile # Null
          /\ last.pre.selfieFile # Null) =>
         /\ pending = last.prePending
                (+) SetToBag({FaceRequest(last.pre.documentImageFile, last.pre.selfieFile)})
         /\ toasts = <<>>
    /\ (OcrResponded \/ FaceResponded) =>
         /\ Len(toasts) = 1
         /\ BagCardinality(pending) = BagCardinality(last.prePending) - 1
    /\ BagCardinality(pending) > BagCardinality(last.prePending) =>
         /\ last.op \in {"submitDocument", "submitSelfie"}
         /\ BagCardinality(pending) = BagCardinality(last.prePending) + 1

OneRequestOneNotificationWitness ==
    /\ FaceResponded /\ ReportedSuccess
    /\ last.response.data = Undefined
    /\ Len(toasts) = 1

\* a handler took one of the failure paths: a response that does not report
\* success, a success response whose payload is missing or cannot be
\* rendered, or a submission whose precondition is not met
FailurePath ==
    \/ OcrResponded /\ (~ReportedSuccess \/ last.response.data \notin WellFormedOcr)
    \/ FaceResponded /\ (\/ ~ReportedSuccess
                         \/ last.response.data \notin WellFormedFace
                         \/ last.pre.ocrResult \notin WellFormedOcr)
    \/ last.op = "submitDocument" /\ last.pre.documentFile = Null
    \/ last.op = "submitSelfie" /\ (\/ last.pre.documentImageFile = Null
                                    \/ last.pre.selfieFile = Null)

\* C17: every failure path ends with a notification and with the step
\* either unchanged or forced to 1.
FailurePathsEndDefined ==
    FailurePath =>
        /\ Len(toasts) >= 1
        /\ (currentStep = last.pre.currentStep \/ currentStep = 1)

\* C18: sending a face-comparison request and handling its response leave
\* documentImageFile as it was; unless a reset came in between, the session
\* holds the image that was sent when the response has been handled.
FaceRequestKeepsDocument ==
    /\ (last.op = "submitSelfie" \/ FaceResponded) =>
         documentImageFile = last.pre.documentImageFile
    /\ (FaceResponded /\ ~last.request.resetSince) =>
         documentImageFile = last.request.document

FaceRequestKeepsDocumentWitness ==
    /\ FaceResponded /\ ReportedSuccess /\ currentStep = 3
    /\ documentImageFile = "id_123.jpg"
    /\ last.request.document = "id_123.jpg"

\* C19: the document sent in a face-comparison request is the document of
\* the OCR request whose response populated ocrResult.
FaceSendsOcrDocument ==
    SelfieRequestSent => last.request.document = last.ocrSource

\* C20: a failed OCR submission leaves the wizard in step 1 with the
\* document form as it was and submittable, whatever the number of failures
\* before it, and an OCR response that reports success shows step 2.
RetryFromStep1 ==
    /\ (OcrResponded /\ ~ReportedSuccess /\ last.pre.currentStep = 1) =>
         /\ currentStep = 1
         /\ documentFile = last.pre.documentFile
         /\ ENABLED SubmitDocument
    /\ (OcrResponded /\ ReportedSuccess) => currentStep = 2

RetryFromStep1Witness ==
    /\ OcrResponded /\ ReportedSuccess
    /\ last.failures = MaxFailures
    /\ ~last.request.resetSince
    /\ last.pre.currentStep = 1 /\ currentStep = 2
    /\ BagCardinality(last.prePending) = 1


\* C21: a submission that sends a request calls showLoading(true) exactly
\* once, and the handling of its response or transport error calls
\* showLoading(false) exactly once, whatever the outcome.
LoadingCyclesOnce ==
    /\ (DocumentRequestSent \/ SelfieRequestSent) => loadingCalls = <<TRUE>>
    /\ (OcrResponded \/ FaceResponded) => loadingCalls = <<FALSE>>

\* C22: the document of an OCR request and the stored document image are
\* image files.
OnlyImagesSubmitted ==
    /\ DocumentRequestSent => IsImage(last.request.document)
    /\ documentImageFile # Null => IsImage(documentImageFile)

\* the submit handler that ran last found its image missing: the document
\* form had no file, or the selfie form had none while the document image
\* was there
ImageNotAttached ==
    \/ last.op = "submitDocument" /\ last.pre.documentFile = Null
    \/ /\ last.op = "submitSelfie"
       /\ last.pre.documentImageFile # Null
       /\ last.pre.selfieFile = Null

\* C23: a submission whose image is not attached sends no request, leaves
\* the step and every session field as they were, makes no showLoading call
\* and leaves the overlay as it was, and shows one error notification.
MissingImageRejectedLocally ==
    ImageNotAttached =>
        /\ pending = last.prePending
        /\ last.request = NoRequest
        /\ Session = last.pre
        /\ loadingCalls = <<>>
        /\ OneErrorToast

MissingImageRejectedWitness ==
    /\ last.op = "submitSelfie"
    /\ last.pre.documentImageFile # Null
    /\ last.pre.selfieFile = Null
    /\ currentStep = 2
    /\ toasts = <<showToast(<<"Please select a selfie">>, "error")>>

\* C25: whenever step 2 is shown, the document image and the OCR result
\* are both present.
Step2HasDocumentAndOcr ==
    currentStep = 2 => Present(documentImageFile) /\ Present(ocrResult)

\* C26: the overlay is shown exactly while a request is outstanding.
LoadingWhileOutstanding ==
    loading <=> BagCardinality(pending) > 0


\* C24: in frontend/script.js an OCR form submission without a document in
\* the file input leaves the wizard in step 1; step 2 is shown only when a
\* document was attached.
OcrSubmitNeedsDocument ==
    (lastScript.op = "submitOcrForm" /\ lastScript.preFile = Null) => shownStep = 1

\* C27: in frontend/script.js, from resetVerification until the next OCR
\* form submission the wizard shows step 1, and the end of a delay that
\* began before the reset does not notify 'KYC Verification Passed'.
ResetHoldsStep1 ==
    lastScript.sinceReset =>
        /\ shownStep = 1
        /\ ~(lastScript.op = "selfieDelayDone" /\ lastScript.stale /\ scriptToasts # <<>>)

\* C28: exactly one nav link is active, and no tab content other than the
\* target of the most recent click is displayed or carries the class
\* 'active'.
SingleActiveTab ==
    /\ Cardinality(activeLinks) = 1
    /\ displayedTabs \subseteq {lastClick}
    /\ activeTabs \subseteq {lastClick}

\* C29: the recent-transactions table and the recent-alerts list hold at
\* most five entries each, and the entry of the event received last for a
\* list is the first node of that list.
LiveListsBounded ==
    /\ Entries(tbody.nodes) <= MaxRows
    /\ Entries(alertList) <= MaxRows
    /\ newest.transaction # 0 =>
         tbody.nodes # <<>> /\ Head(tbody.nodes) = Live(newest.transaction)
    /\ newest.alert # 0 =>
         alertList # <<>> /\ Head(alertList) = Live(newest.alert)

\* C30: the bot messages of the chat stand in the order of the user
\* messages they answer, at most one for each user message.
RepliesInOrder ==
    \A i, j \in DOMAIN chatMessages :
        (i < j /\ chatMessages[i].sender = "bot" /\ chatMessages[j].sender = "bot")
            => chatMessages[i].id < chatMessages[j].id

====
